---- MODULE Spec2Model ----
(***************************************************************************)
(* Model of bus-arrival-notifier: the GTFS schedule cache, the calendar    *)
(* fallback and the departure query of gtfs_parser.py, the display timer   *)
(* of app.py and the update job of update_gtfs.py.                         *)
(*                                                                         *)
(* Representation of Python values:                                        *)
(*   - None is the empty tuple, a present value x is the 1-tuple <<x>>;    *)
(*   - a str that the code looks into (a headsign, a departure_time) is    *)
(*     the sequence of its characters; a str that the code only compares   *)
(*     for equality (a service, trip or stop id, a config key) is a        *)
(*     TLA+ string;                                                        *)
(*   - a YYYYMMDD date string is the 8-digit number it spells: Python      *)
(*     compares two 8-character digit strings as their numbers compare;    *)
(*   - a dict is a function, a list a sequence, a csv row a record whose   *)
(*     fields are the columns of the file's header.                        *)
(***************************************************************************)
EXTENDS Integers, Sequences, FiniteSets, TLC

VARIABLES
    files,          \* DATA_DIR: calendar_dates.txt, trips.txt, stop_times.txt
    cache,          \* gtfs_parser._cache
    fallback_info,  \* gtfs_parser._fallback_info
    req,            \* the call being served / last served (inputs)
    ret,            \* what that call returned (with the values it computed on the way)
    last_query,     \* date of the most recent query call that returned, or None
    thr,            \* request threads: position and locals of each
    writer,         \* per table of _cache, the thread whose load stored it (0: none)
    lametric,       \* the LaMetric device, the pending threading.Timers and the clock
    update          \* update_gtfs.py: version.json and the run of main()

vars == <<files, cache, fallback_info, req, ret, last_query, thr, writer, lametric, update>>

None == <<>>
Some(x) == <<x>>
Val(o) == o[1]

\* dict.get(key, default)
Get(d, k, default) == IF k \in DOMAIN d THEN d[k] ELSE default

\* d[k] = v
Put(d, k, v) == [x \in (DOMAIN d) \cup {k} |-> IF x = k THEN v ELSE d[x]]

EmptyDict == [x \in {} |-> None]

(***************************************************************************)
(* datetime.strptime(s, "%Y%m%d") and .weekday()                           *)
(***************************************************************************)
Year(d) == d \div 10000
Month(d) == (d \div 100) % 100
Day(d) == d % 100

IsLeap(y) == (y % 4 = 0 /\ y % 100 # 0) \/ y % 400 = 0

DaysInMonth(y, m) ==
    IF m = 2 THEN (IF IsLeap(y) THEN 29 ELSE 28)
    ELSE IF m \in {4, 6, 9, 11} THEN 30 ELSE 31

\* strptime raises ValueError unless the string spells a day of the calendar
ValidDate(d) ==
    /\ Year(d) >= 1
    /\ Month(d) \in 1..12
    /\ Day(d) >= 1
    /\ Day(d) <= DaysInMonth(Year(d), Month(d))

RECURSIVE DaysBeforeMonth(_, _)
DaysBeforeMonth(y, m) ==
    IF m = 1 THEN 0 ELSE DaysBeforeMonth(y, m - 1) + DaysInMonth(y, m - 1)

\* date.toordinal(): 1 for 0001-01-01
Ordinal(d) ==
    LET y == Year(d) - 1
    IN  365 * y + (y \div 4) - (y \div 100) + (y \div 400)
        + DaysBeforeMonth(Year(d), Month(d)) + Day(d)

\* date.weekday(): Monday is 0
Weekday(d) == (Ordinal(d) + 6) % 7

(***************************************************************************)
(* str.split(":") and int()                                                *)
(***************************************************************************)
DigitChars == <<"0", "1", "2", "3", "4", "5", "6", "7", "8", "9">>

IsDigit(c) == \E i \in 1..10 : DigitChars[i] = c

DigitValue(c) == (CHOOSE i \in 1..10 : DigitChars[i] = c) - 1

RECURSIVE SplitFrom(_, _, _)
\* the parts of s split at sep, cur being the part collected so far
SplitFrom(s, sep, cur) ==
    IF s = <<>> THEN <<cur>>
    ELSE IF Head(s) = sep THEN <<cur>> \o SplitFrom(Tail(s), sep, <<>>)
    ELSE SplitFrom(Tail(s), sep, Append(cur, Head(s)))

Split(s, sep) == SplitFrom(s, sep, <<>>)

RECURSIVE DigitsValue(_, _)
DigitsValue(s, acc) ==
    IF s = <<>> THEN acc ELSE DigitsValue(Tail(s), 10 * acc + DigitValue(Head(s)))

AllDigits(s) == s # <<>> /\ \A i \in 1..Len(s) : IsDigit(s[i])

\* int(s): None stands for ValueError
ParseInt(s) ==
    IF s # <<>> /\ Head(s) \in {"-", "+"}
    THEN IF AllDigits(Tail(s))
         THEN Some((IF Head(s) = "-" THEN -1 ELSE 1) * DigitsValue(Tail(s), 0))
         ELSE None
    ELSE IF AllDigits(s) THEN Some(DigitsValue(s, 0)) ELSE None

\* (mutant) a part that is no number, or is missing, counted as 0
parse_time_lenient(time_str) ==
    LET parts == Split(time_str, ":")
        Part(k) == IF Len(parts) < k \/ ParseInt(parts[k]) = None THEN 0
                   ELSE Val(ParseInt(parts[k]))
    IN  Some(Part(1) * 3600 + Part(2) * 60 + Part(3))

\* parse_time: the timedelta in seconds, or None
parse_time(time_str) ==
    LET parts == Split(time_str, ":")
    IN  IF Len(parts) < 2 THEN None
        ELSE LET hours == ParseInt(parts[1])
                 minutes == ParseInt(parts[2])
                 seconds == IF Len(parts) > 2 THEN ParseInt(parts[3]) ELSE Some(0)
             IN  IF hours = None \/ minutes = None \/ seconds = None THEN None
                 ELSE Some(Val(hours) * 3600 + Val(minutes) * 60 + Val(seconds))

\* f"{n:02d}" for 0 <= n <= 99
TwoDigits(n) == <<DigitChars[(n \div 10) + 1], DigitChars[(n % 10) + 1]>>

\* (mutant) the hour not wrapped at 24
FormatTimeUnwrapped(dep_time) ==
    LET total_minutes == dep_time \div 60
    IN  TwoDigits(total_minutes \div 60) \o <<":">> \o TwoDigits(total_minutes % 60)

\* the HH:MM of a departure, 24:00 and later wrapped
FormatTime(dep_time) ==
    LET total_minutes == dep_time \div 60
        hours == (total_minutes \div 60) % 24
        mins == total_minutes % 60
    IN  TwoDigits(hours) \o <<":">> \o TwoDigits(mins)

\* pattern in headsign
Contains(headsign, pattern) ==
    \E i \in 1..(Len(headsign) - Len(pattern) + 1) :
        SubSeq(headsign, i, i + Len(pattern) - 1) = pattern

(***************************************************************************)
(* config.yaml as get_config() returns it: three stop groups (one of them  *)
(* without stop ids), three destination pattern lists (one of them empty). *)
(***************************************************************************)
bus_stops ==
    [stop_a |-> [name |-> "A", stop_ids |-> <<"S1", "S2">>],
     stop_b |-> [name |-> "B", stop_ids |-> <<"S3">>],
     stop_c |-> [name |-> "C", stop_ids |-> <<>>]]

destinations ==
    [destination_1 |-> << <<"D", "o">> >>,
     destination_2 |-> << <<"X">>, <<"o", "Y">> >>,
     destination_3 |-> <<>>]

Range(s) == {s[i] : i \in DOMAIN s}

\* _get_all_stop_ids
_get_all_stop_ids == UNION {Range(bus_stops[k].stop_ids) : k \in DOMAIN bus_stops}

(***************************************************************************)
(* _load_all_data: the three readers.  Each gives [ok, v]: ok is FALSE     *)
(* when open() or a row[...] lookup raises, v is the table built.          *)
(***************************************************************************)
RECURSIVE ServiceDates(_, _)
ServiceDates(rows, service_dates) ==
    IF rows = <<>> THEN service_dates
    ELSE LET row == Head(rows)
             exception_type == Get(row, "exception_type", "1")
         IN  IF exception_type = "1"
             THEN ServiceDates(Tail(rows),
                      Put(service_dates, row.date,
                          Append(Get(service_dates, row.date, <<>>), row.service_id)))
             ELSE ServiceDates(Tail(rows), service_dates)

ReadCalendar(f) ==
    IF ~f.exists THEN [ok |-> FALSE, v |-> None]
    ELSE IF \E i \in DOMAIN f.rows : {"service_id", "date"} \ DOMAIN f.rows[i] # {}
    THEN [ok |-> FALSE, v |-> None]
    ELSE [ok |-> TRUE, v |-> ServiceDates(f.rows, EmptyDict)]

RECURSIVE TripServices(_, _)
TripServices(rows, trip_services) ==
    IF rows = <<>> THEN trip_services
    ELSE TripServices(Tail(rows),
             Put(trip_services, Head(rows).trip_id, Head(rows).service_id))

ReadTrips(f) ==
    IF ~f.exists THEN [ok |-> FALSE, v |-> None]
    ELSE IF \E i \in DOMAIN f.rows : {"trip_id", "service_id"} \ DOMAIN f.rows[i] # {}
    THEN [ok |-> FALSE, v |-> None]
    ELSE [ok |-> TRUE, v |-> TripServices(f.rows, EmptyDict)]

RECURSIVE StopTimes(_, _)
StopTimes(rows, all_stop_ids) ==
    IF rows = <<>> THEN <<>>
    ELSE LET row == Head(rows)
         IN  IF row.stop_id \in all_stop_ids
             THEN << [trip_id |-> row.trip_id,
                      departure_time |-> row.departure_time,
                      stop_id |-> row.stop_id,
                      headsign |-> Get(row, "stop_headsign", <<>>)] >>
                  \o StopTimes(Tail(rows), all_stop_ids)
             ELSE StopTimes(Tail(rows), all_stop_ids)

\* row["stop_id"] is looked up on every row, row["trip_id"] and
\* row["departure_time"] only on the rows of a configured stop
ReadStopTimes(f) ==
    IF ~f.exists THEN [ok |-> FALSE, v |-> None]
    ELSE IF \E i \in DOMAIN f.rows :
               \/ "stop_id" \notin DOMAIN f.rows[i]
               \/ /\ f.rows[i].stop_id \in _get_all_stop_ids
                  /\ {"trip_id", "departure_time"} \ DOMAIN f.rows[i] # {}
    THEN [ok |-> FALSE, v |-> None]
    ELSE [ok |-> TRUE, v |-> StopTimes(f.rows, _get_all_stop_ids)]

\* (mutant) a table left in _cache by an earlier call is not read again
_load_all_data_resuming(fs, c) ==
    IF c.loaded THEN [raised |-> FALSE, cache |-> c]
    ELSE LET cal == IF c.calendar_dates # None
                    THEN [ok |-> TRUE, v |-> Val(c.calendar_dates)]
                    ELSE ReadCalendar(fs.calendar_dates)
             c1 == [c EXCEPT !.calendar_dates = Some(cal.v)]
             trips == IF c.trip_services # None
                      THEN [ok |-> TRUE, v |-> Val(c.trip_services)]
                      ELSE ReadTrips(fs.trips)
             c2 == [c1 EXCEPT !.trip_services = Some(trips.v)]
             stops == ReadStopTimes(fs.stop_times)
             c3 == [c2 EXCEPT !.stop_times = Some(stops.v)]
         IN  IF ~cal.ok THEN [raised |-> TRUE, cache |-> c]
             ELSE IF ~trips.ok THEN [raised |-> TRUE, cache |-> c1]
             ELSE IF ~stops.ok THEN [raised |-> TRUE, cache |-> c2]
             ELSE [raised |-> FALSE, cache |-> [c3 EXCEPT !.loaded = TRUE]]

\* _load_all_data run to its end by one caller: [raised, cache]
_load_all_data(fs, c) ==
    IF c.loaded THEN [raised |-> FALSE, cache |-> c]
    ELSE LET cal == ReadCalendar(fs.calendar_dates)
             c1 == [c EXCEPT !.calendar_dates = Some(cal.v)]
             trips == ReadTrips(fs.trips)
             c2 == [c1 EXCEPT !.trip_services = Some(trips.v)]
             stops == ReadStopTimes(fs.stop_times)
             c3 == [c2 EXCEPT !.stop_times = Some(stops.v)]
         IN  IF ~cal.ok THEN [raised |-> TRUE, cache |-> c]
             ELSE IF ~trips.ok THEN [raised |-> TRUE, cache |-> c1]
             ELSE IF ~stops.ok THEN [raised |-> TRUE, cache |-> c2]
             ELSE [raised |-> FALSE, cache |-> [c3 EXCEPT !.loaded = TRUE]]

(***************************************************************************)
(* _find_fallback_date: [result, info], info being _fallback_info after    *)
(* the call.                                                               *)
(***************************************************************************)
\* (mutant) the weekday test of the scan left out
AnyCalendarDates(target_date, calendar_dates) ==
    {date_str \in DOMAIN calendar_dates : ValidDate(date_str)}

\* the scan of calendar_dates.keys() for the dates of target_date's weekday;
\* a key strptime rejects is passed over
SameWeekdayDates(target_date, calendar_dates) ==
    {date_str \in DOMAIN calendar_dates :
        ValidDate(date_str) /\ Weekday(date_str) = Weekday(target_date)}

\* (mutant) the sort ascending: the earliest date comes first
EarliestOf(same_weekday_dates) ==
    CHOOSE d \in same_weekday_dates : \A e \in same_weekday_dates : d <= e

\* same_weekday_dates.sort(reverse=True); same_weekday_dates[0]
LatestOf(same_weekday_dates) ==
    CHOOSE d \in same_weekday_dates : \A e \in same_weekday_dates : e <= d

_find_fallback_date(target_date, calendar_dates, info) ==
    IF target_date \in DOMAIN calendar_dates
    THEN [result |-> Some(target_date),
          info |-> [is_fallback |-> FALSE,
                    original_date |-> Some(target_date),
                    fallback_date |-> None]]
    ELSE IF ~ValidDate(target_date) THEN [result |-> None, info |-> info]
    ELSE LET same_weekday_dates == SameWeekdayDates(target_date, calendar_dates)
         IN  IF same_weekday_dates = {} THEN [result |-> None, info |-> info]
             ELSE [result |-> Some(LatestOf(same_weekday_dates)),
                   info |-> [is_fallback |-> TRUE,
                             original_date |-> Some(target_date),
                             fallback_date |-> Some(LatestOf(same_weekday_dates))]]

\* get_fallback_info (fallback_date_formatted left out: it is derived text)
get_fallback_info(info) == info

(***************************************************************************)
(* get_next_buses and get_next_buses_with_times, from the tables each has  *)
(* read out of _cache.  A candidate carries the index of the stop_times    *)
(* row it was computed from (row), which the code does not keep: it is     *)
(* there to state properties, and no result depends on it.                 *)
(***************************************************************************)
\* any(pattern in headsign for pattern in dest_patterns)
AnyPattern(headsign, dest_patterns) ==
    \E k \in DOMAIN dest_patterns : Contains(headsign, dest_patterns[k])

\* timedelta(hours=now.hour, minutes=now.minute, seconds=now.second)
CurrentTime(now) == now.hour * 3600 + now.minute * 60 + now.second

\* (mutant) the trip is in the index, whatever its service
TripKnown(trip_id, trip_services, today_services) == trip_id \in DOMAIN trip_services

\* trip_services.get(trip_id) in today_services; None is in no set of service ids
ServiceActive(trip_id, trip_services, today_services) ==
    /\ trip_id \in DOMAIN trip_services
    /\ trip_services[trip_id] \in today_services

\* (mutant) a bus leaving at the reference second counted as gone
DepartedBeforeOrAt(dep_time, current_time) == dep_time <= current_time

\* dep_time < current_time: the row is skipped
DepartedBefore(dep_time, current_time) == dep_time < current_time

RECURSIVE PlainCandidates(_, _, _)
\* the loop of get_next_buses over stop_times[i..]
PlainCandidates(stop_times, i, c) ==
    IF i > Len(stop_times) THEN <<>>
    ELSE LET st == stop_times[i]
             rest == PlainCandidates(stop_times, i + 1, c)
             dep_time == parse_time(st.departure_time)
         IN  IF st.stop_id \notin c.target_stop_ids THEN rest
             ELSE IF ~AnyPattern(st.headsign, c.dest_patterns) THEN rest
             ELSE IF ~ServiceActive(st.trip_id, c.trip_services, c.today_services) THEN rest
             ELSE IF dep_time = None THEN rest
             ELSE IF DepartedBefore(Val(dep_time), c.current_time) THEN rest
             ELSE << [minutes |-> (Val(dep_time) - c.current_time) \div 60,
                      row |-> i] >> \o rest

RECURSIVE TimedCandidatesRoundedUp(_, _, _)
\* (mutant) the minutes of the detailed result rounded up
TimedCandidatesRoundedUp(stop_times, i, c) ==
    IF i > Len(stop_times) THEN <<>>
    ELSE LET st == stop_times[i]
             rest == TimedCandidatesRoundedUp(stop_times, i + 1, c)
             dep_time == parse_time(st.departure_time)
         IN  IF st.stop_id \notin c.target_stop_ids THEN rest
             ELSE IF ~AnyPattern(st.headsign, c.dest_patterns) THEN rest
             ELSE IF ~ServiceActive(st.trip_id, c.trip_services, c.today_services) THEN rest
             ELSE IF dep_time = None THEN rest
             ELSE IF DepartedBefore(Val(dep_time), c.current_time) THEN rest
             ELSE << [minutes |-> (Val(dep_time) - c.current_time + 59) \div 60,
                      time |-> FormatTime(Val(dep_time)),
                      row |-> i] >> \o rest

RECURSIVE TimedCandidates(_, _, _)
\* the loop of get_next_buses_with_times over stop_times[i..]
TimedCandidates(stop_times, i, c) ==
    IF i > Len(stop_times) THEN <<>>
    ELSE LET st == stop_times[i]
             rest == TimedCandidates(stop_times, i + 1, c)
             dep_time == parse_time(st.departure_time)
         IN  IF st.stop_id \notin c.target_stop_ids THEN rest
             ELSE IF ~AnyPattern(st.headsign, c.dest_patterns) THEN rest
             ELSE IF ~ServiceActive(st.trip_id, c.trip_services, c.today_services) THEN rest
             ELSE IF dep_time = None THEN rest
             ELSE IF DepartedBefore(Val(dep_time), c.current_time) THEN rest
             ELSE << [minutes |-> (Val(dep_time) - c.current_time) \div 60,
                      time |-> FormatTime(Val(dep_time)),
                      row |-> i] >> \o rest

RECURSIVE InsertByMinutesFirst(_, _)
\* (mutant) x put in front of the elements of equal minutes
InsertByMinutesFirst(s, x) ==
    IF s = <<>> THEN <<x>>
    ELSE IF Head(s).minutes < x.minutes THEN <<Head(s)>> \o InsertByMinutesFirst(Tail(s), x)
    ELSE <<x>> \o s

RECURSIVE InsertByMinutes(_, _)
\* x put into the sorted s behind every element that is not greater (stable)
InsertByMinutes(s, x) ==
    IF s = <<>> THEN <<x>>
    ELSE IF Head(s).minutes <= x.minutes THEN <<Head(s)>> \o InsertByMinutes(Tail(s), x)
    ELSE <<x>> \o s

RECURSIVE SortFrom(_, _, _)
SortFrom(s, i, sorted) ==
    IF i > Len(s) THEN sorted ELSE SortFrom(s, i + 1, InsertByMinutes(sorted, s[i]))

\* (mutant) the candidates left in row order
Unsorted(candidates) == candidates

\* candidates.sort() / candidates.sort(key=lambda x: x["minutes"])
SortCandidates(candidates) == SortFrom(candidates, 1, <<>>)

\* (mutant) one candidate more than asked for
SliceToNext(s, limit) == SubSeq(s, 1, IF limit + 1 < Len(s) THEN limit + 1 ELSE Len(s))

\* candidates[:limit]
SliceTo(s, limit) ==
    IF limit >= 0
    THEN SubSeq(s, 1, IF limit < Len(s) THEN limit ELSE Len(s))
    ELSE SubSeq(s, 1, IF Len(s) + limit > 0 THEN Len(s) + limit ELSE 0)

\* what a query returns before it has looked at the tables
EarlyReturn(info) ==
    [value |-> <<>>, picked |-> <<>>, candidates |-> <<>>,
     resolved |-> FALSE, effective_date |-> None, info |-> info]

\* the local values the two loops read
LoopContext(q, trip_services, today_services) ==
    [target_stop_ids |-> Range(bus_stops[q.stop_location].stop_ids),
     dest_patterns |-> Get(destinations, q.destination, <<>>),
     trip_services |-> trip_services,
     today_services |-> today_services,
     current_time |-> CurrentTime(q.now)]

\* get_next_buses after _load_all_data()
get_next_buses(q, calendar_dates, trip_services, stop_times, info) ==
    IF q.stop_location \notin DOMAIN bus_stops THEN EarlyReturn(info)
    ELSE IF Get(destinations, q.destination, <<>>) = <<>> THEN EarlyReturn(info)
    ELSE LET found == _find_fallback_date(q.now.date, calendar_dates, info)
         IN  IF found.result = None
             THEN [EarlyReturn(found.info) EXCEPT !.resolved = TRUE]
             ELSE LET today_services ==
                          Range(Get(calendar_dates, Val(found.result), <<>>))
                      candidates ==
                          PlainCandidates(stop_times, 1,
                              LoopContext(q, trip_services, today_services))
                      picked == SliceTo(SortCandidates(candidates), q.limit)
                  IN  [value |-> [k \in DOMAIN picked |-> picked[k].minutes],
                       picked |-> picked,
                       candidates |-> candidates,
                       resolved |-> TRUE,
                       effective_date |-> found.result,
                       info |-> found.info]

\* get_next_buses_with_times after _load_all_data()
get_next_buses_with_times(q, calendar_dates, trip_services, stop_times, info) ==
    IF q.stop_location \notin DOMAIN bus_stops THEN EarlyReturn(info)
    ELSE IF Get(destinations, q.destination, <<>>) = <<>> THEN EarlyReturn(info)
    ELSE LET found == _find_fallback_date(q.now.date, calendar_dates, info)
         IN  IF found.result = None
             THEN [EarlyReturn(found.info) EXCEPT !.resolved = TRUE]
             ELSE LET today_services ==
                          Range(Get(calendar_dates, Val(found.result), <<>>))
                      candidates ==
                          TimedCandidates(stop_times, 1,
                              LoopContext(q, trip_services, today_services))
                      picked == SliceTo(SortCandidates(candidates), q.limit)
                  IN  [value |-> [k \in DOMAIN picked |->
                                     [minutes |-> picked[k].minutes,
                                      time |-> picked[k].time]],
                       picked |-> picked,
                       candidates |-> candidates,
                       resolved |-> TRUE,
                       effective_date |-> found.result,
                       info |-> found.info]

QueryFns == {"get_next_buses", "get_next_buses_with_times"}

\* the query named fn
RunQuery(fn, q, calendar_dates, trip_services, stop_times, info) ==
    IF fn = "get_next_buses"
    THEN get_next_buses(q, calendar_dates, trip_services, stop_times, info)
    ELSE get_next_buses_with_times(q, calendar_dates, trip_services, stop_times, info)

(***************************************************************************)
(* The files of DATA_DIR the runs are checked on.                          *)
(***************************************************************************)
MaxRows == 2        \* rows of a drawn stop_times.txt
MaxCalRows == 3     \* rows of a drawn calendar_dates.txt
MaxLimit == 2       \* largest limit a caller passes
MaxActivations == 3 \* /lametric/activate requests of a run
TickSeconds == 100  \* the longest time that passes in one step
MaxRuns == 2        \* runs of update_gtfs.py
RevertDelay == 300  \* threading.Timer(300, revert_to_clock)
DefaultLimit == 3   \* limit: int = 3

Chars(h1, h2, m1, m2, s1, s2) == <<h1, h2, ":", m1, m2, ":", s1, s2>>

CalRow(service_id, date, exception_type) ==
    [service_id |-> service_id, date |-> date, exception_type |-> exception_type]

TripRow(trip_id, service_id) == [trip_id |-> trip_id, service_id |-> service_id]

StopRow(trip_id, departure_time, stop_id, stop_headsign) ==
    [trip_id |-> trip_id, departure_time |-> departure_time,
     stop_id |-> stop_id, stop_headsign |-> stop_headsign]

File(rows) == [exists |-> TRUE, rows |-> rows]

MissingFile == [exists |-> FALSE, rows |-> <<>>]

\* 20240101 and 20231225 are Mondays, 20231226 and 20231219 Tuesdays;
\* no date of the file is a Wednesday
CalendarA ==
    File(<< CalRow("WKDY", 20240101, "1"),
            CalRow("WKDY", 20231219, "1"),
            CalRow("WKDY", 20231226, "1"),
            CalRow("HOLI", 20231226, "1"),
            CalRow("HOLI", 20231225, "2") >>)

\* the refreshed export: 20240102 and 20240103 have entries of their own
CalendarB ==
    File(<< CalRow("WKDY", 20240101, "1"),
            CalRow("HOLI", 20240102, "1"),
            CalRow("WKDY", 20240103, "1") >>)

\* a header without the date column
CalendarNoDate == File(<< [service_id |-> "WKDY", exception_type |-> "1"] >>)

TripsA == File(<< TripRow("T1", "WKDY"), TripRow("T2", "HOLI"), TripRow("T3", "WKDY") >>)

\* the refreshed export regroups the trips
TripsB == File(<< TripRow("T1", "HOLI"), TripRow("T2", "WKDY") >>)

TripsNoService == File(<< [trip_id |-> "T1"] >>)

StopRowPool ==
    { StopRow("T1", Chars("0", "7", "0", "5", "0", "0"), "S1", <<"D", "o">>),
      StopRow("T1", Chars("2", "5", "1", "0", "0", "0"), "S2", <<"a", "D", "o">>),
      StopRow("T3", Chars("0", "7", "0", "0", "0", "0"), "S1", <<"X">>),
      StopRow("T2", Chars("0", "7", "0", "5", "3", "0"), "S1", <<"D", "o">>),
      StopRow("T9", Chars("0", "7", "1", "0", "0", "0"), "S1", <<"D", "o">>),
      StopRow("T1", Chars("0", "7", "x", "x", "0", "0"), "S2", <<"D", "o">>),
      StopRow("T3", <<"0", "7", ":", "3", "0">>, "S3", <<"o", "Y">>),
      StopRow("T1", Chars("0", "6", "0", "0", "0", "0"), "S9", <<"D", "o">>),
      StopRow("T1", Chars("0", "7", "2", "0", "0", "0"), "S1", <<"D">>) }

StopTimesA ==
    File(<< StopRow("T1", Chars("0", "7", "0", "5", "0", "0"), "S1", <<"D", "o">>),
            StopRow("T2", Chars("0", "7", "0", "5", "3", "0"), "S1", <<"D", "o">>),
            StopRow("T1", Chars("0", "6", "0", "0", "0", "0"), "S9", <<"D", "o">>) >>)

StopTimesB ==
    File(<< StopRow("T2", Chars("0", "7", "2", "0", "0", "0"), "S1", <<"D", "o">>) >>)

StopTimesNoStop == File(<< [trip_id |-> "T1"] >>)

DataDir(c, t, s) == [calendar_dates |-> c, trips |-> t, stop_times |-> s]

FeedA == DataDir(CalendarA, TripsA, StopTimesA)
FeedB == DataDir(CalendarB, TripsB, StopTimesB)

\* the export, the refreshed export, and the export with one file gone or
\* without a column the loader reads
DataDirs ==
    { FeedA, FeedB,
      DataDir(MissingFile, TripsA, StopTimesA),
      DataDir(CalendarNoDate, TripsA, StopTimesA),
      DataDir(CalendarA, MissingFile, StopTimesA),
      DataDir(CalendarA, TripsNoService, StopTimesA),
      DataDir(CalendarA, TripsA, MissingFile),
      DataDir(CalendarA, TripsA, StopTimesNoStop) }

SeqsUpTo(S, n) == UNION {[1..k -> S] : k \in 0..n}

\* rows of one route (trip T1 at stop S1) that differ in their departure
\* time: around midnight, past midnight, and strings parse_time rejects
TimeRowPool ==
    { StopRow("T1", Chars("2", "3", "5", "9", "3", "0"), "S1", <<"D", "o">>),
      StopRow("T1", Chars("2", "4", "0", "0", "1", "0"), "S1", <<"D", "o">>),
      StopRow("T1", Chars("2", "5", "1", "0", "0", "0"), "S1", <<"D", "o">>),
      StopRow("T1", Chars("0", "7", "0", "5", "0", "0"), "S1", <<"D", "o">>),
      StopRow("T1", Chars("0", "7", "x", "x", "0", "0"), "S1", <<"D", "o">>),
      StopRow("T1", <<"0", "7", "0", "5">>, "S1", <<"D", "o">>),
      StopRow("T1", <<":", "0", "5", ":", "0", "0">>, "S1", <<"D", "o">>) }

\* DATA_DIR with a stop_times.txt of up to MaxRows rows of that pool
DrawnTimes ==
    {DataDir(CalendarA, TripsA, File(rows)) : rows \in SeqsUpTo(TimeRowPool, MaxRows)}

\* DATA_DIR with a stop_times.txt of up to MaxRows rows of the pool
DrawnStopTimes ==
    {DataDir(CalendarA, TripsA, File(rows)) : rows \in SeqsUpTo(StopRowPool, MaxRows)}

CalRowPool ==
    { CalRow("WKDY", 20240101, "1"),
      CalRow("WKDY", 20231225, "1"),
      CalRow("WKDY", 20231226, "1"),
      CalRow("HOLI", 20231219, "1"),
      CalRow("WKDY", 20240109, "1"),
      CalRow("WKDY", 20240230, "1"),
      CalRow("HOLI", 20240102, "2") }

\* DATA_DIR with a calendar_dates.txt of up to MaxCalRows rows of the pool
DrawnCalendars ==
    {DataDir(File(rows), TripsA, StopTimesA) : rows \in SeqsUpTo(CalRowPool, MaxCalRows)}

Now(date, hour, minute, second) ==
    [date |-> date, hour |-> hour, minute |-> minute, second |-> second]

Query(stop_location, destination, now, limit) ==
    [stop_location |-> stop_location, destination |-> destination,
     now |-> now, limit |-> limit]

\* the calls of a serving process: the configured route and an unknown stop,
\* on a Monday, a Tuesday, a Wednesday and Christmas Monday, with the default limit
ServiceQueries ==
    {Query(stop, "destination_1", Now(date, 7, 0, 0), DefaultLimit) :
        stop \in {"stop_a", "stop_x"},
        date \in {20240101, 20240102, 20240103, 20231225}}

\* the calls the departure query is checked on
DepartureQueries ==
    {Query(stop, dest, Now(date, t[1], t[2], t[3]), limit) :
        stop \in {"stop_a", "stop_b"},
        dest \in {"destination_1", "destination_2"},
        date \in {20240101, 20240102},
        t \in {<<0, 0, 0>>, <<7, 0, 30>>, <<7, 5, 0>>},
        limit \in (0 - 1)..MaxLimit}

\* calls with a stop group or a destination that is unknown or empty, next to
\* calls of configured routes
NoMatchQueries ==
    {Query(stop, dest, Now(date, 7, 0, 0), DefaultLimit) :
        stop \in {"stop_a", "stop_c", "stop_x"},
        dest \in {"destination_1", "destination_2", "destination_3", "destination_x"},
        date \in {20240101, 20240102}}

\* calls of the route at midnight, in the morning and late in the evening
TimeQueries ==
    {Query("stop_a", "destination_1", Now(20240101, t[1], t[2], t[3]), limit) :
        t \in {<<0, 0, 0>>, <<7, 0, 0>>, <<23, 59, 15>>},
        limit \in {1, DefaultLimit}}

\* the calls the calendar fallback is checked on
CalendarQueries ==
    {Query("stop_a", "destination_1", Now(date, 7, 0, 0), DefaultLimit) :
        date \in {20240101, 20240102, 20240103, 20231225, 20240116}}

(***************************************************************************)
(* The process: module globals as the import leaves them, and the calls.   *)
(***************************************************************************)
Threads == {1, 2}

\* _cache = {"calendar_dates": None, ..., "loaded": False}
InitCache ==
    [calendar_dates |-> None, trip_services |-> None, stop_times |-> None,
     loaded |-> FALSE]

\* _fallback_info = {"is_fallback": False, "original_date": None, "fallback_date": None}
InitFallbackInfo ==
    [is_fallback |-> FALSE, original_date |-> None, fallback_date |-> None]

NoRequest == [fn |-> "none", q |-> None]

\* scanned: the call's _load_all_data went past its loaded test and read
\* the files
NoReturn ==
    [status |-> "none", value |-> <<>>, picked |-> <<>>, candidates |-> <<>>,
     resolved |-> FALSE, effective_date |-> None, scanned |-> FALSE]

\* a thread between two requests.  built is the table _load_all_data has
\* read from a file and not yet stored; calendar_dates, trip_services and
\* stop_times are the query's locals of these names; from lists, per local,
\* the thread whose load stored the table read
IdleThread ==
    [pc |-> "idle", fn |-> "none", q |-> None, built |-> None,
     calendar_dates |-> None, trip_services |-> None, stop_times |-> None,
     from |-> <<>>, status |-> "none", value |-> <<>>]

NoWriter == [calendar_dates |-> 0, trip_services |-> 0, stop_times |-> 0]

\* the display shows its clock, no timer is pending.  timers lists the
\* deadlines of the threading.Timers started and not yet run, now is the
\* time in seconds; requests (the times of the /lametric/activate requests
\* served) and put_failed (a PUT to the device has failed) are kept to state
\* properties
InitLaMetric ==
    [app |-> "clock", timers |-> <<>>, now |-> 0, requests |-> <<>>,
     put_failed |-> FALSE]

\* no version.json, update_gtfs.py not running.  version_file is the "date" of
\* version.json; current_version and latest_version are the locals of main();
\* exit is what main() returned; runs, start_version (version_file when the
\* run began) and log (what the run has done so far) are kept to state
\* properties
NoUpdate ==
    [version_file |-> None, pc |-> "idle", current_version |-> None,
     latest_version |-> None, exit |-> None, runs |-> 0,
     start_version |-> None, log |-> <<>>]

\* the process right after gtfs_parser is imported, DATA_DIR holding dir
Imported(dir) ==
    /\ files = dir
    /\ cache = InitCache
    /\ fallback_info = InitFallbackInfo
    /\ req = NoRequest
    /\ ret = NoReturn
    /\ last_query = None
    /\ thr = [t \in Threads |-> IdleThread]
    /\ writer = NoWriter
    /\ lametric = InitLaMetric
    /\ update = NoUpdate

\* a caller calls fn(q): the call is pending
Call(fn, q) ==
    /\ ret.status # "pending"
    /\ req' = [fn |-> fn, q |-> Some(q)]
    /\ ret' = [NoReturn EXCEPT !.status = "pending"]
    /\ UNCHANGED <<files, cache, fallback_info, last_query, thr, writer, lametric, update>>

\* get_next_buses / get_next_buses_with_times run from entry to return (or
\* to the exception _load_all_data lets through) with no other call between
ServeQuery ==
    /\ ret.status = "pending"
    /\ req.fn \in QueryFns
    /\ \E load \in {_load_all_data(files, cache)} :
       \E r \in {IF load.raised THEN EarlyReturn(fallback_info)
                 ELSE RunQuery(req.fn, Val(req.q),
                               Val(load.cache.calendar_dates),
                               Val(load.cache.trip_services),
                               Val(load.cache.stop_times),
                               fallback_info)} :
           /\ cache' = load.cache
           /\ IF load.raised
              THEN /\ ret' = [NoReturn EXCEPT !.status = "raised", !.scanned = TRUE]
                   /\ last_query' = None
                   /\ UNCHANGED fallback_info
              ELSE /\ ret' = [status |-> "ok", value |-> r.value, picked |-> r.picked,
                              candidates |-> r.candidates, resolved |-> r.resolved,
                              effective_date |-> r.effective_date,
                              scanned |-> ~cache.loaded]
                   /\ fallback_info' = r.info
                   /\ last_query' = Some(Val(req.q).now.date)
    /\ UNCHANGED <<files, req, thr, writer, lametric, update>>

\* get_fallback_info()
CallFallbackInfo ==
    /\ ret.status \notin {"none", "pending"}
    /\ req' = [fn |-> "get_fallback_info", q |-> None]
    /\ ret' = [NoReturn EXCEPT !.status = "ok",
                               !.value = get_fallback_info(fallback_info)]
    /\ UNCHANGED <<files, cache, fallback_info, last_query, thr, writer, lametric, update>>

\* update_gtfs.py: download_gtfs extracts another export over DATA_DIR
\* (or the files are damaged)
ExtractFiles ==
    /\ \E dir \in DataDirs \ {files} : files' = dir
    /\ UNCHANGED <<cache, fallback_info, req, ret, last_query, thr, writer, lametric, update>>

\* update_gtfs.py restart_service: the process starts again
RestartService ==
    /\ cache # InitCache
    /\ cache' = InitCache
    /\ fallback_info' = InitFallbackInfo
    /\ req' = NoRequest
    /\ ret' = NoReturn
    /\ last_query' = None
    /\ UNCHANGED <<files, thr, writer, lametric, update>>

(***************************************************************************)
(* Spec: one serving process, its calls one after the other.               *)
(***************************************************************************)
Init == \E dir \in DataDirs : Imported(dir)

CallQuery == \E fn \in QueryFns, q \in ServiceQueries : Call(fn, q)

Next ==
    \/ CallQuery
    \/ ServeQuery
    \/ CallFallbackInfo
    \/ ExtractFiles
    \/ RestartService

Spec == Init /\ [][Next]_vars

(***************************************************************************)
(* SpecDepartures: the first call of a process, over drawn stop_times.txt. *)
(***************************************************************************)
InitDepartures == \E dir \in DrawnStopTimes : Imported(dir)

FirstDepartureCall ==
    /\ req = NoRequest
    /\ \E fn \in QueryFns, q \in DepartureQueries : Call(fn, q)

NextDepartures == FirstDepartureCall \/ ServeQuery

SpecDepartures == InitDepartures /\ [][NextDepartures]_vars

(***************************************************************************)
(* SpecCalendar: the first call of a process, over drawn calendar files.   *)
(***************************************************************************)
InitCalendar == \E dir \in DrawnCalendars : Imported(dir)

FirstCalendarCall ==
    /\ req = NoRequest
    /\ \E fn \in QueryFns, q \in CalendarQueries : Call(fn, q)

NextCalendar == FirstCalendarCall \/ ServeQuery

SpecCalendar == InitCalendar /\ [][NextCalendar]_vars

(***************************************************************************)
(* SpecNoMatch: the first call of a process, for stop groups and           *)
(* destinations that are unknown or empty, over drawn stop_times.txt.      *)
(***************************************************************************)
FirstNoMatchCall ==
    /\ req = NoRequest
    /\ \E fn \in QueryFns, q \in NoMatchQueries : Call(fn, q)

NextNoMatch == FirstNoMatchCall \/ ServeQuery

SpecNoMatch == InitDepartures /\ [][NextNoMatch]_vars

(***************************************************************************)
(* SpecTimes: the first call of a process, over stop_times.txt files whose *)
(* rows differ in their departure time.                                    *)
(***************************************************************************)
InitTimes == \E dir \in DrawnTimes : Imported(dir)

FirstTimesCall ==
    /\ req = NoRequest
    /\ \E fn \in QueryFns, q \in TimeQueries : Call(fn, q)

NextTimes == FirstTimesCall \/ ServeQuery

SpecTimes == InitTimes /\ [][NextTimes]_vars

(***************************************************************************)
(* SpecThreads: the Flask server's request threads, each running           *)
(* get_next_buses step by step.  A step is one access to a module global   *)
(* or to DATA_DIR; what a thread does between two accesses is its own.     *)
(***************************************************************************)
\* the requests the threads serve: the configured route on a Monday and on a
\* Tuesday
ThreadQueries ==
    {Query("stop_a", "destination_1", Now(date, 7, 0, 0), DefaultLimit) :
        date \in {20240101, 20240102}}

\* thread t moves to pc p with locals changed as in the record upd
Step(t, upd) ==
    thr' = [thr EXCEPT ![t] = [f \in DOMAIN thr[t] |->
                                  IF f \in DOMAIN upd THEN upd[f] ELSE thr[t][f]]]

\* a request arrives: the thread enters get_next_buses
Enter(t) ==
    /\ thr[t].pc = "idle"
    /\ \E q \in ThreadQueries :
           thr' = [thr EXCEPT ![t] =
                      [IdleThread EXCEPT !.pc = "load", !.fn = "get_next_buses",
                                         !.q = Some(q)]]
    /\ UNCHANGED <<files, cache, fallback_info, req, ret, last_query, writer, lametric, update>>

\* _load_all_data: if _cache["loaded"]: return
CheckLoaded(t) ==
    /\ thr[t].pc = "load"
    /\ Step(t, [pc |-> IF cache.loaded THEN "get_calendar" ELSE "read_calendar"])
    /\ UNCHANGED <<files, cache, fallback_info, req, ret, last_query, writer, lametric, update>>

\* the calendar_dates.txt, trips.txt or stop_times.txt loop of _load_all_data;
\* an exception ends the request
ReadFile(t) ==
    /\ thr[t].pc \in {"read_calendar", "read_trips", "read_stop_times"}
    /\ \E got \in {CASE thr[t].pc = "read_calendar" -> ReadCalendar(files.calendar_dates)
                     [] thr[t].pc = "read_trips" -> ReadTrips(files.trips)
                     [] OTHER -> ReadStopTimes(files.stop_times)} :
           IF got.ok
           THEN Step(t, [pc |-> CASE thr[t].pc = "read_calendar" -> "set_calendar"
                                  [] thr[t].pc = "read_trips" -> "set_trips"
                                  [] OTHER -> "set_stop_times",
                         built |-> Some(got.v)])
           ELSE Step(t, [pc |-> "idle", status |-> "raised"])
    /\ UNCHANGED <<files, cache, fallback_info, req, ret, last_query, writer, lametric, update>>

\* _cache["calendar_dates"] = service_dates
SetCalendar(t) ==
    /\ thr[t].pc = "set_calendar"
    /\ cache' = [cache EXCEPT !.calendar_dates = thr[t].built]
    /\ writer' = [writer EXCEPT !.calendar_dates = t]
    /\ Step(t, [pc |-> "read_trips", built |-> None])
    /\ UNCHANGED <<files, fallback_info, req, ret, last_query, lametric, update>>

\* _cache["trip_services"] = trip_services
SetTrips(t) ==
    /\ thr[t].pc = "set_trips"
    /\ cache' = [cache EXCEPT !.trip_services = thr[t].built]
    /\ writer' = [writer EXCEPT !.trip_services = t]
    /\ Step(t, [pc |-> "read_stop_times", built |-> None])
    /\ UNCHANGED <<files, fallback_info, req, ret, last_query, lametric, update>>

\* _cache["stop_times"] = stop_times
SetStopTimes(t) ==
    /\ thr[t].pc = "set_stop_times"
    /\ cache' = [cache EXCEPT !.stop_times = thr[t].built]
    /\ writer' = [writer EXCEPT !.stop_times = t]
    /\ Step(t, [pc |-> "set_loaded", built |-> None])
    /\ UNCHANGED <<files, fallback_info, req, ret, last_query, lametric, update>>

\* _cache["loaded"] = True
SetLoaded(t) ==
    /\ thr[t].pc = "set_loaded"
    /\ cache' = [cache EXCEPT !.loaded = TRUE]
    /\ Step(t, [pc |-> "get_calendar"])
    /\ UNCHANGED <<files, fallback_info, req, ret, last_query, writer, lametric, update>>

\* calendar_dates = _cache["calendar_dates"]
GetCalendar(t) ==
    /\ thr[t].pc = "get_calendar"
    /\ Step(t, [pc |-> "get_trips",
                calendar_dates |-> cache.calendar_dates,
                from |-> <<writer.calendar_dates>>])
    /\ UNCHANGED <<files, cache, fallback_info, req, ret, last_query, writer, lametric, update>>

\* trip_services = _cache["trip_services"]
GetTrips(t) ==
    /\ thr[t].pc = "get_trips"
    /\ Step(t, [pc |-> "get_stop_times",
                trip_services |-> cache.trip_services,
                from |-> Append(thr[t].from, writer.trip_services)])
    /\ UNCHANGED <<files, cache, fallback_info, req, ret, last_query, writer, lametric, update>>

\* stop_times = _cache["stop_times"]
GetStopTimes(t) ==
    /\ thr[t].pc = "get_stop_times"
    /\ Step(t, [pc |-> "resolve",
                stop_times |-> cache.stop_times,
                from |-> Append(thr[t].from, writer.stop_times)])
    /\ UNCHANGED <<files, cache, fallback_info, req, ret, last_query, writer, lametric, update>>

\* the rest of get_next_buses on the locals: _find_fallback_date with its
\* stores to _fallback_info (taken as one step), the loop, the sort, the return
Finish(t) ==
    /\ thr[t].pc = "resolve"
    /\ \E r \in {RunQuery(thr[t].fn, Val(thr[t].q), Val(thr[t].calendar_dates),
                          Val(thr[t].trip_services), Val(thr[t].stop_times),
                          fallback_info)} :
           /\ fallback_info' = r.info
           /\ Step(t, [pc |-> "idle", status |-> "ok", value |-> r.value])
    /\ UNCHANGED <<files, cache, req, ret, last_query, writer, lametric, update>>

\* update_gtfs.py extracts the other export over DATA_DIR while the server runs
SwapFeed ==
    /\ \E dir \in {FeedA, FeedB} \ {files} : files' = dir
    /\ UNCHANGED <<cache, fallback_info, req, ret, last_query, thr, writer, lametric, update>>

InitThreads == Imported(FeedA)

NextThreads ==
    \/ \E t \in Threads :
          \/ Enter(t)
          \/ CheckLoaded(t)
          \/ ReadFile(t)
          \/ SetCalendar(t)
          \/ SetTrips(t)
          \/ SetStopTimes(t)
          \/ SetLoaded(t)
          \/ GetCalendar(t)
          \/ GetTrips(t)
          \/ GetStopTimes(t)
          \/ Finish(t)
    \/ SwapFeed

SpecThreads == InitThreads /\ [][NextThreads]_vars

(***************************************************************************)
(* SpecLaMetric: app.py's /lametric/activate handler, its timers, and the  *)
(* time that passes.  A timer runs its function when its interval has      *)
(* passed: time does not move beyond the deadline of a pending timer.      *)
(***************************************************************************)
\* activate_lametric_app: the app the device shows after the PUT, which
\* either reaches the device (ok) or raises (the exception is printed)
activate_lametric_app(app, package, ok) == IF ok THEN package ELSE app

\* the earliest deadline of the pending timers
NextDeadline(timers) ==
    CHOOSE d \in Range(timers) : \A e \in Range(timers) : d <= e

\* activate_bus_app: the bus app is activated, a timer of 300 s is started
activate_bus_app ==
    /\ Len(lametric.requests) < MaxActivations
    /\ \E ok \in BOOLEAN :
           lametric' =
               [lametric EXCEPT
                   !.app = activate_lametric_app(lametric.app, "bus", ok),
                   !.timers = Append(lametric.timers, lametric.now + RevertDelay),
                   !.requests = Append(lametric.requests, lametric.now),
                   !.put_failed = lametric.put_failed \/ ~ok]
    /\ UNCHANGED <<files, cache, fallback_info, req, ret, last_query, thr, writer, update>>

\* revert_to_clock, run by a timer whose interval has passed
revert_to_clock ==
    /\ \E i \in DOMAIN lametric.timers :
           /\ lametric.timers[i] = lametric.now
           /\ \E ok \in BOOLEAN :
                  lametric' =
                      [lametric EXCEPT
                          !.app = activate_lametric_app(lametric.app, "clock", ok),
                          !.timers = SubSeq(lametric.timers, 1, i - 1)
                                         \o SubSeq(lametric.timers, i + 1,
                                                   Len(lametric.timers)),
                          !.put_failed = lametric.put_failed \/ ~ok]
    /\ UNCHANGED <<files, cache, fallback_info, req, ret, last_query, thr, writer, update>>

\* time passes, up to the next deadline
Tick ==
    /\ lametric.timers # <<>>
    /\ lametric.now < NextDeadline(lametric.timers)
    /\ lametric' =
           [lametric EXCEPT
               !.now = IF lametric.now + TickSeconds < NextDeadline(lametric.timers)
                       THEN lametric.now + TickSeconds
                       ELSE NextDeadline(lametric.timers)]
    /\ UNCHANGED <<files, cache, fallback_info, req, ret, last_query, thr, writer, update>>

InitLaMetricApp == Imported(FeedA)

NextLaMetric == activate_bus_app \/ revert_to_clock \/ Tick

SpecLaMetric == InitLaMetricApp /\ [][NextLaMetric]_vars

(***************************************************************************)
(* SpecUpdate: runs of update_gtfs.py main(), one after the other, step by *)
(* step.  What the network, the archive and the file system answer is      *)
(* chosen freely at each step.                                             *)
(***************************************************************************)
\* the dates ODPT has an export for, and the export of each
Versions == {20240101, 20240108}

FeedOf(version) == IF version = 20240101 THEN FeedA ELSE FeedB

\* DATA_DIR before the first download
EmptyDir == DataDir(MissingFile, MissingFile, MissingFile)

\* DATA_DIR after zf.extractall has written some members of the archive and
\* then raised
PartlyExtracted(old, new) ==
    { DataDir(new.calendar_dates, old.trips, old.stop_times),
      DataDir(new.calendar_dates, new.trips, old.stop_times) }

\* (mutant) the comparison with the recorded version left out
DecisionWithoutCompare(current_version, latest_version) ==
    IF latest_version = None THEN "unknown" ELSE "download"

\* main: if not latest_version: return 1; if current_version == latest_version:
\* return 0; else the download
Decision(current_version, latest_version) ==
    IF latest_version = None THEN "unknown"
    ELSE IF current_version = latest_version THEN "up_to_date"
    ELSE "download"

\* main returns code
Return(code) == [update EXCEPT !.pc = "idle", !.exit = Some(code)]

\* main starts: current_version = get_current_version()
StartUpdate ==
    /\ update.pc = "idle"
    /\ update.runs < MaxRuns
    /\ update' = [update EXCEPT !.pc = "latest",
                                !.current_version = update.version_file,
                                !.latest_version = None,
                                !.exit = None,
                                !.runs = update.runs + 1,
                                !.start_version = update.version_file,
                                !.log = <<>>]
    /\ UNCHANGED <<files, cache, fallback_info, req, ret, last_query, thr, writer, lametric>>

\* latest_version = get_latest_date(config): a date ODPT answers for, or None
get_latest_date ==
    /\ update.pc = "latest"
    /\ \E latest \in {None} \cup {Some(v) : v \in Versions} :
           update' = [update EXCEPT !.pc = "decide", !.latest_version = latest]
    /\ UNCHANGED <<files, cache, fallback_info, req, ret, last_query, thr, writer, lametric>>

\* the two tests of main before the download
Decide ==
    /\ update.pc = "decide"
    /\ \E decision \in {Decision(update.current_version, update.latest_version)} :
           update' = IF decision = "unknown" THEN Return(1)
                     ELSE IF decision = "up_to_date" THEN Return(0)
                     ELSE [update EXCEPT !.pc = "download"]
    /\ UNCHANGED <<files, cache, fallback_info, req, ret, last_query, thr, writer, lametric>>

\* download_gtfs(config, latest_version): the download raises, or the
\* extraction raises (before or after it has written files), or both are
\* done; an exception ends main with 1
download_gtfs ==
    /\ update.pc = "download"
    /\ \/ /\ update' = [Return(1) EXCEPT !.log = Append(update.log, "download_failed")]
          /\ UNCHANGED files
       \/ /\ update' = [Return(1) EXCEPT !.log = Append(update.log, "extract_failed")]
          /\ files' \in {files} \cup PartlyExtracted(files, FeedOf(Val(update.latest_version)))
       \/ /\ update' = [update EXCEPT !.pc = "save",
                                       !.log = Append(update.log, "extracted")]
          /\ files' = FeedOf(Val(update.latest_version))
    /\ UNCHANGED <<cache, fallback_info, req, ret, last_query, thr, writer, lametric>>

\* save_version(latest_version): version.json is written, or open() raises
save_version ==
    /\ update.pc = "save"
    /\ \/ update' = [update EXCEPT !.pc = "restart",
                                    !.version_file = update.latest_version,
                                    !.log = Append(update.log, "saved")]
       \/ update' = [Return(1) EXCEPT !.log = Append(update.log, "save_failed")]
    /\ UNCHANGED <<files, cache, fallback_info, req, ret, last_query, thr, writer, lametric>>

\* restart_service(): systemctl restart is run; when it works the serving
\* process starts again.  main returns 0 either way
restart_service ==
    /\ update.pc = "restart"
    /\ update' = [Return(0) EXCEPT !.log = Append(update.log, "restart")]
    /\ \E ok \in BOOLEAN :
           IF ok
           THEN /\ cache' = InitCache
                /\ fallback_info' = InitFallbackInfo
                /\ req' = NoRequest
                /\ ret' = NoReturn
                /\ last_query' = None
           ELSE UNCHANGED <<cache, fallback_info, req, ret, last_query>>
    /\ UNCHANGED <<files, thr, writer, lametric>>

InitUpdate == \E dir \in {EmptyDir, FeedA} : Imported(dir)

NextUpdate ==
    \/ StartUpdate
    \/ get_latest_date
    \/ Decide
    \/ download_gtfs
    \/ save_version
    \/ restart_service

SpecUpdate == InitUpdate /\ [][NextUpdate]_vars

(***************************************************************************)
(* Properties.                                                             *)
(***************************************************************************)
\* a query call has returned
Served == req.fn \in QueryFns /\ ret.status = "ok"

TheQuery == Val(req.q)

CalendarKeys == DOMAIN Val(cache.calendar_dates)

\* the calendar keys that are days of weekday(D)
KeysOfWeekday(D) == {k \in CalendarKeys : ValidDate(k) /\ Weekday(k) = Weekday(D)}

\* the minutes of element v of a result of fn
MinutesOf(fn, v) == IF fn = "get_next_buses" THEN v ELSE v.minutes

\* C1: a query date D that is a calendar key resolves to (D, not fallback); a
\* D that is no key, with keys of D's weekday, resolves to the greatest such
\* key, flagged as fallback.
C1_CalendarResolution ==
    (Served /\ ret.resolved) =>
        LET D == TheQuery.now.date
        IN  /\ D \in CalendarKeys =>
                /\ ret.effective_date = Some(D)
                /\ ~fallback_info.is_fallback
            /\ (D \notin CalendarKeys /\ KeysOfWeekday(D) # {}) =>
                /\ ret.effective_date # None
                /\ Val(ret.effective_date) \in KeysOfWeekday(D)
                /\ \A k \in KeysOfWeekday(D) : k <= Val(ret.effective_date)
                /\ fallback_info.is_fallback

\* C1 witness: the date is no key, two keys share its weekday, and the query
\* resolved to one of them.
C1_Witness ==
    /\ Served
    /\ TheQuery.now.date \notin CalendarKeys
    /\ Cardinality(KeysOfWeekday(TheQuery.now.date)) >= 2
    /\ ret.effective_date # None
    /\ fallback_info.is_fallback

\* C10: a query whose date is no calendar key and shares its weekday with no
\* key returns the empty sequence and raises nothing.
C10_NoCalendarIsEmpty ==
    (/\ req.fn \in QueryFns
     /\ ret.status \in {"ok", "raised"}
     /\ cache.loaded
     /\ TheQuery.now.date \notin CalendarKeys
     /\ KeysOfWeekday(TheQuery.now.date) = {})
        => (ret.status = "ok" /\ ret.value = <<>>)

\* C10 witness: a loaded, non-empty calendar with no key of the date's weekday,
\* and the query returned nothing.
C10_Witness ==
    /\ Served
    /\ ret.resolved
    /\ CalendarKeys # {}
    /\ TheQuery.now.date \notin CalendarKeys
    /\ KeysOfWeekday(TheQuery.now.date) = {}
    /\ ret.effective_date = None
    /\ ret.value = <<>>

\* the rows of the store, and the values a served query worked with
StoreRows == Val(cache.stop_times)

ReferenceOffset == CurrentTime(TheQuery.now)

ActiveServices == Range(Val(cache.calendar_dates)[Val(ret.effective_date)])

\* the departure offset of store row i in seconds (None when it does not parse)
OffsetOf(i) == parse_time(StoreRows[i].departure_time)

\* store row i passes the four conditions of the query
RowQualifies(i) ==
    /\ \E k \in DOMAIN bus_stops[TheQuery.stop_location].stop_ids :
           bus_stops[TheQuery.stop_location].stop_ids[k] = StoreRows[i].stop_id
    /\ \E k \in DOMAIN destinations[TheQuery.destination] :
           Contains(StoreRows[i].headsign, destinations[TheQuery.destination][k])
    /\ \E t \in DOMAIN Val(cache.trip_services) :
           /\ t = StoreRows[i].trip_id
           /\ Val(cache.trip_services)[t] \in ActiveServices
    /\ OffsetOf(i) # None
    /\ Val(OffsetOf(i)) >= ReferenceOffset

\* C6: the candidates of a query, before truncation, are exactly the store
\* rows that pass the stop, headsign, active-service and time conditions,
\* one candidate per row.
C6_FilterCorrectness ==
    (Served /\ ret.effective_date # None) =>
        /\ {ret.candidates[k].row : k \in DOMAIN ret.candidates}
               = {i \in DOMAIN StoreRows : RowQualifies(i)}
        /\ \A j, k \in DOMAIN ret.candidates :
               ret.candidates[j].row = ret.candidates[k].row => j = k

\* C6 witness: of two store rows one leaves exactly at the reference time and
\* is a candidate, the other belongs to a trip the index does not know and is
\* none.
C6_Witness ==
    /\ Served
    /\ ret.effective_date # None
    /\ Len(StoreRows) = 2
    /\ Len(ret.candidates) = 1
    /\ OffsetOf(ret.candidates[1].row) = Some(ReferenceOffset)
    /\ \E i \in DOMAIN StoreRows : StoreRows[i].trip_id \notin DOMAIN Val(cache.trip_services)

\* HH:MM of a number of seconds since midnight below 86400
ClockOf(x) ==
    << DigitChars[((x \div 3600) \div 10) + 1], DigitChars[((x \div 3600) % 10) + 1], ":",
       DigitChars[(((x % 3600) \div 60) \div 10) + 1], DigitChars[(((x % 3600) \div 60) % 10) + 1] >>

\* C7: a returned departure from a row of offset d, the reference offset being
\* r, has minutes floor((d - r) / 60) and, in the detailed result, the time
\* HH:MM of d mod 86400; 25:10:00 seen from 00:00:00 is 1510 minutes, "01:10".
C7_DepartureValues ==
    Served =>
        \A k \in DOMAIN ret.value :
            LET d == Val(OffsetOf(ret.picked[k].row))
            IN  /\ MinutesOf(req.fn, ret.value[k]) = (d - ReferenceOffset) \div 60
                /\ req.fn = "get_next_buses_with_times" =>
                       ret.value[k].time = ClockOf(d % 86400)
                /\ (/\ StoreRows[ret.picked[k].row].departure_time
                          = <<"2", "5", ":", "1", "0", ":", "0", "0">>
                    /\ ReferenceOffset = 0) =>
                       /\ MinutesOf(req.fn, ret.value[k]) = 1510
                       /\ req.fn = "get_next_buses_with_times" =>
                              ret.value[k].time = <<"0", "1", ":", "1", "0">>

\* C7 witness: the detailed query at 00:00:00 returned the 25:10:00 departure.
C7_Witness ==
    /\ Served
    /\ req.fn = "get_next_buses_with_times"
    /\ ReferenceOffset = 0
    /\ \E k \in DOMAIN ret.value :
           /\ StoreRows[ret.picked[k].row].departure_time
                  = <<"2", "5", ":", "1", "0", ":", "0", "0">>
           /\ ret.value[k] = [minutes |-> 1510, time |-> <<"0", "1", ":", "1", "0">>]

\* C8 as stated: for every limit the caller passes, the result is no longer
\* than limit and no minutes value is negative.
C8_BoundAnyLimit ==
    Served =>
        /\ Len(ret.value) <= TheQuery.limit
        /\ \A k \in DOMAIN ret.value : MinutesOf(req.fn, ret.value[k]) >= 0

\* C8 amended: for every limit >= 0 the result is no longer than limit, and
\* for every limit no minutes value is negative.
C8_BoundNonNegativeLimit ==
    Served =>
        /\ TheQuery.limit >= 0 => Len(ret.value) <= TheQuery.limit
        /\ \A k \in DOMAIN ret.value : MinutesOf(req.fn, ret.value[k]) >= 0

\* C8 witness: two candidates, limit 1, one departure returned.
C8_Witness ==
    /\ Served
    /\ TheQuery.limit = 1
    /\ Len(ret.candidates) = 2
    /\ Len(ret.value) = 1

\* C9: a result is ascending in minutes, its elements are candidates, and no
\* candidate left out has fewer minutes than a returned one.
C9_Ordering ==
    Served =>
        /\ \A k \in 1..(Len(ret.value) - 1) :
               MinutesOf(req.fn, ret.value[k]) <= MinutesOf(req.fn, ret.value[k + 1])
        /\ \A k \in DOMAIN ret.value :
               \E j \in DOMAIN ret.candidates :
                   /\ ret.candidates[j].row = ret.picked[k].row
                   /\ ret.candidates[j].minutes = MinutesOf(req.fn, ret.value[k])
        /\ \A j \in DOMAIN ret.candidates :
               (\A k \in DOMAIN ret.picked : ret.picked[k].row # ret.candidates[j].row) =>
                   \A k \in DOMAIN ret.value :
                       MinutesOf(req.fn, ret.value[k]) <= ret.candidates[j].minutes

\* C9 witness: the later store row leaves first, and with limit 1 it is the
\* one returned.
C9_Witness ==
    /\ Served
    /\ Len(ret.candidates) = 2
    /\ ret.candidates[1].minutes > ret.candidates[2].minutes
    /\ TheQuery.limit = 1
    /\ Len(ret.value) = 1
    /\ MinutesOf(req.fn, ret.value[1]) = ret.candidates[2].minutes

\* the three tables of the store
Tables == <<cache.calendar_dates, cache.trip_services, cache.stop_times>>

\* C2: a call whose load raises leaves the three tables as they were before
\* the call.
C2_LoadAtomicity ==
    [][(ret.status = "pending" /\ ret'.status = "raised") => Tables' = Tables]_vars

\* C4: once the store is loaded, a query call changes neither _cache nor
\* _fallback_info.
C4_QueriesReadOnly ==
    [][(/\ cache.loaded
        /\ req.fn \in QueryFns
        /\ ret.status = "pending"
        /\ ret'.status = "ok")
          => (cache' = cache /\ fallback_info' = fallback_info)]_vars

\* what the fallback status of a query for date D on the loaded calendar is
ExpectedStatus(D) ==
    IF D \notin CalendarKeys /\ KeysOfWeekday(D) # {}
    THEN [is_fallback |-> TRUE,
          original_date |-> Some(D),
          fallback_date |->
              Some(CHOOSE k \in KeysOfWeekday(D) : \A j \in KeysOfWeekday(D) : j <= k)]
    ELSE [is_fallback |-> FALSE, original_date |-> Some(D), fallback_date |-> None]

\* C5: the fallback status a caller reads describes the most recent query:
\* its date, whether a same-weekday date was substituted, and which.
C5_FallbackDisclosure ==
    (/\ req.fn = "get_fallback_info"
     /\ ret.status = "ok"
     /\ last_query # None
     /\ cache.loaded)
        => ret.value = ExpectedStatus(Val(last_query))

\* C3: the three tables a query has read out of _cache were stored by one
\* and the same load.
C3_ReadsOfOneLoad ==
    \A t \in Threads :
        thr[t].pc = "resolve" =>
            /\ thr[t].from[1] = thr[t].from[2]
            /\ thr[t].from[2] = thr[t].from[3]

\* C3 witness of the effect: a query about to resolve holds the calendar of
\* the refreshed export and the trip index of the export before it, stored
\* by two different loads.
C3_MixedExports ==
    \E t \in Threads :
        /\ thr[t].pc = "resolve"
        /\ thr[t].from[1] # thr[t].from[2]
        /\ thr[t].calendar_dates = Some(ReadCalendar(CalendarB).v)
        /\ thr[t].trip_services = Some(ReadTrips(TripsA).v)

\* a query call has ended, by a return or by an exception
Ended == req.fn \in QueryFns /\ ret.status \in {"ok", "raised"}

\* the stop group of the query is not configured or holds no stop id
NoStopGroup ==
    \/ TheQuery.stop_location \notin DOMAIN bus_stops
    \/ bus_stops[TheQuery.stop_location].stop_ids = <<>>

\* the destination of the query is not configured or holds no pattern
NoPatterns ==
    \/ TheQuery.destination \notin DOMAIN destinations
    \/ destinations[TheQuery.destination] = <<>>

\* store row i is of the query's stop group and its headsign holds a pattern
RowMatches(i) ==
    /\ \E k \in DOMAIN bus_stops[TheQuery.stop_location].stop_ids :
           bus_stops[TheQuery.stop_location].stop_ids[k] = StoreRows[i].stop_id
    /\ \E k \in DOMAIN destinations[TheQuery.destination] :
           Contains(StoreRows[i].headsign, destinations[TheQuery.destination][k])

\* no pattern of the query occurs in a headsign of the store
NoHeadsignMatch ==
    \A i \in DOMAIN StoreRows :
        \A k \in DOMAIN destinations[TheQuery.destination] :
            ~Contains(StoreRows[i].headsign, destinations[TheQuery.destination][k])

\* the effective date has no active service for the matching rows
NoActiveService ==
    /\ ret.effective_date # None
    /\ \A i \in DOMAIN StoreRows :
           RowMatches(i) =>
               \/ StoreRows[i].trip_id \notin DOMAIN Val(cache.trip_services)
               \/ Val(cache.trip_services)[StoreRows[i].trip_id] \notin ActiveServices

\* C11: on a loaded store, a query whose stop group is unknown or empty,
\* whose destination is unknown or empty, whose patterns occur in no
\* headsign, or whose matching rows have no service active on the effective
\* date, returns the empty sequence and raises nothing.
C11_NoMatchSafety ==
    (/\ Ended
     /\ cache.loaded
     /\ \/ NoStopGroup
        \/ NoPatterns
        \/ NoHeadsignMatch
        \/ NoActiveService)
        => (ret.status = "ok" /\ ret.value = <<>>)

\* C11 witness: the store holds a row of the query's stop group with a
\* matching headsign, its trip is in the index, its service is not active on
\* the effective date, and the query returned nothing.
C11_Witness ==
    /\ Served
    /\ ~NoStopGroup
    /\ ~NoPatterns
    /\ NoActiveService
    /\ \E i \in DOMAIN StoreRows :
           /\ RowMatches(i)
           /\ StoreRows[i].trip_id \in DOMAIN Val(cache.trip_services)
           /\ OffsetOf(i) # None
           /\ Val(OffsetOf(i)) >= ReferenceOffset
    /\ ret.value = <<>>

\* C11, the other cases reached: an empty stop group, an unknown stop, an
\* empty and an unknown destination, patterns in no headsign of a store
\* with rows
C11_EmptyGroupServed ==
    Served /\ TheQuery.stop_location = "stop_c" /\ StoreRows # <<>> /\ ret.value = <<>>

C11_UnknownDestinationServed ==
    Served /\ TheQuery.destination = "destination_x" /\ TheQuery.stop_location = "stop_a"
           /\ StoreRows # <<>> /\ ret.value = <<>>

\* what get_next_buses and get_next_buses_with_times return for the served
\* query on the loaded store
PlainResult ==
    get_next_buses(TheQuery, Val(cache.calendar_dates), Val(cache.trip_services),
                   Val(cache.stop_times), fallback_info).value

DetailedResult ==
    get_next_buses_with_times(TheQuery, Val(cache.calendar_dates),
                              Val(cache.trip_services), Val(cache.stop_times),
                              fallback_info).value

\* C12: for the same store, stop group, destination, reference time and limit
\* the detailed result has the length of the plain result and, element by
\* element, its minutes; a detailed element holds the minutes and the clock
\* time and nothing else.
C12_DetailedPlainEquivalence ==
    Served =>
        \A plain \in {PlainResult}, detailed \in {DetailedResult} :
            /\ ret.value = IF req.fn = "get_next_buses" THEN plain ELSE detailed
            /\ Len(detailed) = Len(plain)
            /\ \A k \in DOMAIN detailed :
                   /\ detailed[k].minutes = plain[k]
                   /\ DOMAIN detailed[k] = {"minutes", "time"}

\* C12 witness: a detailed call returned two departures in another order than
\* their rows, a minute apart or more, and the plain result has their minutes.
C12_Witness ==
    /\ Served
    /\ req.fn = "get_next_buses_with_times"
    /\ Len(ret.value) = 2
    /\ ret.picked[1].row > ret.picked[2].row
    /\ ret.value[1].minutes < ret.value[2].minutes
    /\ PlainResult = <<ret.value[1].minutes, ret.value[2].minutes>>

\* the offset of the row the k-th returned departure was computed from
PickedOffset(k) == Val(OffsetOf(ret.picked[k].row))

\* C14 as stated: in a result, a departure of offset 24:00:00 or later comes
\* after every departure of an offset before 24:00:00, whatever the order of
\* the rows and the reference time (stated on the detailed result, whose
\* elements show their clock time).
C14_PastMidnightLast ==
    (Served /\ req.fn = "get_next_buses_with_times") =>
        \A j, k \in DOMAIN ret.picked :
            (PickedOffset(j) >= 86400 /\ PickedOffset(k) < 86400) => k < j

\* C14 amended: a departure of offset 24:00:00 or later has no fewer minutes
\* than a returned same-day departure and comes after every returned same-day
\* departure of fewer minutes; the two having the same minutes, they come in
\* the order of their rows.
C14_PastMidnightByMinutes ==
    Served =>
        \A j, k \in DOMAIN ret.picked :
            (PickedOffset(j) >= 86400 /\ PickedOffset(k) < 86400) =>
                /\ ret.picked[k].minutes <= ret.picked[j].minutes
                /\ ret.picked[k].minutes < ret.picked[j].minutes => k < j
                /\ ret.picked[k].minutes = ret.picked[j].minutes =>
                       (k < j <=> ret.picked[k].row < ret.picked[j].row)

\* C14 witness: the 24:00:10 row stands before the 23:59:30 row in the store,
\* both are returned with 0 minutes at 23:59:15, the past-midnight one first.
C14_Witness ==
    /\ Served
    /\ req.fn = "get_next_buses_with_times"
    /\ ReferenceOffset = 86355
    /\ Len(ret.picked) = 2
    /\ ret.value = << [minutes |-> 0, time |-> <<"0", "0", ":", "0", "0">>],
                      [minutes |-> 0, time |-> <<"2", "3", ":", "5", "9">>] >>
    /\ PickedOffset(1) = 86410
    /\ PickedOffset(2) = 86370
    /\ ret.picked[1].minutes = 0
    /\ ret.picked[2].minutes = 0
    /\ ret.picked[1].row < ret.picked[2].row

\* a text int() accepts: digits, with a sign or without
IsIntegerText(s) ==
    \/ AllDigits(s)
    \/ s # <<>> /\ Head(s) \in {"-", "+"} /\ AllDigits(Tail(s))

\* hours:minutes or hours:minutes:seconds..., each of the three an integer
WellFormedTime(time_str) ==
    /\ Len(Split(time_str, ":")) >= 2
    /\ \A k \in 1..3 :
           k <= Len(Split(time_str, ":")) => IsIntegerText(Split(time_str, ":")[k])

\* s without its i-th element
Without(s, i) == SubSeq(s, 1, i - 1) \o SubSeq(s, i + 1, Len(s))

\* C15: a store row whose departure time is no well-formed time gives no
\* candidate, and the query returns what it returns on the store without
\* that row.
C15_MalformedSkipped ==
    Served =>
        \A i \in DOMAIN StoreRows :
            ~WellFormedTime(StoreRows[i].departure_time) =>
                /\ \A k \in DOMAIN ret.candidates : ret.candidates[k].row # i
                /\ ret.value = RunQuery(req.fn, TheQuery, Val(cache.calendar_dates),
                                        Val(cache.trip_services), Without(StoreRows, i),
                                        fallback_info).value

\* C15 witness: of two rows of the route the first has a departure time that
\* is no time, and the query returned the departure of the second.
C15_Witness ==
    /\ Served
    /\ Len(StoreRows) = 2
    /\ ~WellFormedTime(StoreRows[1].departure_time)
    /\ RowMatches(1)
    /\ Len(ret.value) = 1
    /\ ret.picked[1].row = 2

\* the store a full scan of the files of DATA_DIR gives
ParsedStore(fs) ==
    [calendar_dates |-> Some(ReadCalendar(fs.calendar_dates).v),
     trip_services |-> Some(ReadTrips(fs.trips).v),
     stop_times |-> Some(ReadStopTimes(fs.stop_times).v),
     loaded |-> TRUE]

\* a call that runs _load_all_data returns without an exception
LoadReturns == req.fn \in QueryFns /\ ret.status = "pending" /\ ret'.status = "ok"

\* C16 as stated: after every call of load that returns, the store is the
\* parse of the source files as they are at that call.
C16_EveryLoadScans == [][LoadReturns => cache' = ParsedStore(files)]_vars

\* C16 amended: a call of load that finds the store not loaded and returns
\* leaves the store equal to the parse of the source files as they are at
\* that call; a call that finds the store loaded leaves it as it is, whatever
\* the files hold.
C16_LoadScansOnce ==
    [][LoadReturns =>
          IF cache.loaded THEN cache' = cache ELSE cache' = ParsedStore(files)]_vars

\* C16 witness: a call found the store loaded and returned without reading
\* the files; the store is the parse of the first export, DATA_DIR holds the
\* refreshed one.
C16_Witness ==
    /\ Served
    /\ ~ret.scanned
    /\ cache = ParsedStore(FeedA)
    /\ files = FeedB

\* the time of the most recent /lametric/activate request
LastRequest == lametric.requests[Len(lametric.requests)]

\* C13: after a request at time t (every PUT having reached the device) the
\* display shows the bus app until t + 300 s, whatever requests came before
\* it, and the clock app from then on.
C13_BusUntilRevert ==
    (lametric.requests # <<>> /\ ~lametric.put_failed) =>
        /\ lametric.now < LastRequest + RevertDelay => lametric.app = "bus"
        /\ lametric.now > LastRequest + RevertDelay => lametric.app = "clock"

\* C13, the failing case reached: no PUT has failed, the most recent of two
\* requests is less than 300 s ago, and the timer of the first has put the
\* display back to the clock.
C13_EarlyRevert ==
    /\ ~lametric.put_failed
    /\ Len(lametric.requests) = 2
    /\ lametric.requests[1] < lametric.requests[2]
    /\ lametric.now = lametric.requests[1] + RevertDelay
    /\ lametric.now < lametric.requests[2] + RevertDelay
    /\ lametric.app = "clock"

\* event a stands before event b in the log of the run
Before(a, b) ==
    \E i, j \in DOMAIN update.log :
        i < j /\ update.log[i] = a /\ update.log[j] = b

Logged(a) == \E i \in DOMAIN update.log : update.log[i] = a

\* a run of the update job has ended
RunEnded == update.pc = "idle" /\ update.runs > 0

\* C17: in a run of the update job version.json is written only after the
\* download and the extraction were done without error, and the restart is
\* requested only after version.json was written; a run that finds no latest
\* version, finds the recorded version to be the latest, or whose download
\* fails, leaves version.json as it was and requests no restart.
C17_UpdateOrdering ==
    /\ update.version_file # update.start_version =>
           /\ Before("extracted", "saved")
           /\ update.version_file = update.latest_version
           /\ files = FeedOf(Val(update.latest_version))
    /\ Logged("saved") => Before("extracted", "saved")
    /\ Logged("restart") => Before("saved", "restart")
    /\ (/\ RunEnded
        /\ \/ update.latest_version = None
           \/ update.latest_version = update.current_version
           \/ Logged("download_failed")
           \/ Logged("extract_failed"))
          => /\ update.version_file = update.start_version
             /\ ~Logged("restart")
             /\ update.exit = IF update.latest_version = update.current_version
                                  /\ update.latest_version # None
                               THEN Some(0) ELSE Some(1)

\* C17 witness: the second run of the job found a newer export than the one
\* recorded, extracted it, wrote version.json and requested the restart.
C17_Witness ==
    /\ RunEnded
    /\ update.runs = 2
    /\ update.start_version = Some(20240101)
    /\ update.version_file = Some(20240108)
    /\ update.log = <<"extracted", "saved", "restart">>
    /\ update.exit = Some(0)
    /\ files = FeedB

\* C17, the other case reached: a run whose extraction failed half way ended
\* with version.json as it was and files of both exports in DATA_DIR.
C17_FailedRunKeepsVersion ==
    /\ RunEnded
    /\ Logged("extract_failed")
    /\ update.version_file = Some(20240101)
    /\ files = DataDir(CalendarB, TripsA, StopTimesA)

====
